---- MODULE Spec2Model ----
(***************************************************************************)
(* VSJumpToLine: the line classification and rewriting engine.             *)
(*                                                                         *)
(* A text line is a sequence of one-character strings, so that the         *)
(* substring searches and the regular expressions of the program are       *)
(* computed character by character.                                        *)
(***************************************************************************)
EXTENDS Integers, Sequences, FiniteSets, TLC

(***************************************************************************)
(* class Severity(enum.IntEnum)                                            *)
(***************************************************************************)
ignore == 0
offset_before == 1
offset_behind == 2
note == 10
info == 20
warning == 30
error == 40

(***************************************************************************)
(* Exit statuses set in VSJumpToLine.__init__                              *)
(***************************************************************************)
exit_success == 0
exit_fail_decode == 3

(***************************************************************************)
(* Character helpers: str.lower, str.find, str.replace, str.isspace, \d    *)
(***************************************************************************)
UpperCase == <<"A", "B", "C", "D", "E", "F", "G", "H", "I", "J", "K", "L", "M",
               "N", "O", "P", "Q", "R", "S", "T", "U", "V", "W", "X", "Y", "Z">>
LowerCase == <<"a", "b", "c", "d", "e", "f", "g", "h", "i", "j", "k", "l", "m",
               "n", "o", "p", "q", "r", "s", "t", "u", "v", "w", "x", "y", "z">>

lower_char(c) ==
    IF \E i \in 1..Len(UpperCase) : UpperCase[i] = c
    THEN LowerCase[CHOOSE i \in 1..Len(UpperCase) : UpperCase[i] = c]
    ELSE c

lower(s) == [i \in 1..Len(s) |-> lower_char(s[i])]

\* str.find(sub): the lowest 0-based index where sub occurs, or -1
find(s, sub) ==
    LET hits == {i \in 0..(Len(s) - Len(sub)) : SubSeq(s, i + 1, i + Len(sub)) = sub}
    IN  IF hits = {} THEN -1 ELSE CHOOSE i \in hits : \A j \in hits : i <= j

\* str.replace(c, ''): every occurrence of the character c removed
remove_char(s, c) == SelectSeq(s, LAMBDA x : x # c)

WhiteSpace == {" ", "\t", "\n", "\r"}

\* str.isspace(): at least one character and all of them whitespace
isspace(s) == Len(s) > 0 /\ \A i \in 1..Len(s) : s[i] \in WhiteSpace

IsDigit(c) == c \in {"0", "1", "2", "3", "4", "5", "6", "7", "8", "9"}

\* index of the last character of the longest run of digits starting at p
\* (p - 1 when s[p] is no digit): the greedy \d+
digits_end(s, p) ==
    LET stops == {q \in p..Len(s) : ~IsDigit(s[q])}
    IN  IF p > Len(s) THEN p - 1
        ELSE IF stops = {} THEN Len(s)
        ELSE (CHOOSE q \in stops : \A r \in stops : q <= r) - 1

(***************************************************************************)
(* VSJumpToLine.__match_severity                                           *)
(***************************************************************************)
match_severity(line) ==
    LET l == lower(line)
        has(sub) == find(l, sub) > -1
    IN  IF has(<<"n", "o", "t", "e", ":">>) \/ has(<<"n", "o", "t", "e", "[">>)
        THEN note
        ELSE IF has(<<"w", "a", "r", "n", "i", "n", "g", ":">>)
                \/ has(<<"w", "a", "r", "n", "i", "n", "g", "[">>)
                \/ has(<<":", "f", "a", "i", "l", ":">>)
        THEN warning
        ELSE IF has(<<"e", "r", "r", "o", "r", ":">>) \/ has(<<"e", "r", "r", "o", "r", "[">>)
                \/ has(<<"u", "n", "d", "e", "f", "i", "n", "e", "d", " ",
                         "r", "e", "f", "e", "r", "e", "n", "c", "e">>)
        THEN error
        ELSE ignore

(***************************************************************************)
(* VSJumpToLine.__match_line_and_column                                    *)
(*   regex = :(\d+):((\d+):)?|(\"(.+)\",(\d+))|(\((\d+)\) :)               *)
(***************************************************************************)
\* The match of the regex that starts exactly at position p, as re would find
\* it (alternatives in order, greedy quantifiers), or kind "none".  A group
\* that took no part in the match is the empty sequence, which is what
\* re.sub expands it to.
NoGroup == <<>>

\* :(\d+):   with a1 the end of the digits after the colon at p
alt_line(s, p, a1) ==
    /\ s[p] = ":"
    /\ a1 >= p + 1
    /\ a1 + 1 <= Len(s)
    /\ s[a1 + 1] = ":"

\* ((\d+):)?   with a2 the end of the digits after the second colon
alt_column(s, a1, a2) ==
    /\ a2 >= a1 + 2
    /\ a2 + 1 <= Len(s)
    /\ s[a2 + 1] = ":"

\* (\"(.+)\",(\d+))   the greedy .+ runs to the last  ",digit  of the line:
\* the position of that closing quote, 0 when the alternative does not match
alt_quoted(s, p) ==
    LET closers == {j \in (p + 2)..(Len(s) - 2) :
                        s[j] = "\"" /\ s[j + 1] = "," /\ IsDigit(s[j + 2])}
    IN  IF s[p] = "\"" /\ closers # {}
        THEN CHOOSE j \in closers : \A k \in closers : k <= j
        ELSE 0

\* (\((\d+)\) :)   with c1 the end of the digits after the parenthesis at p
alt_paren(s, p, c1) ==
    /\ s[p] = "("
    /\ c1 >= p + 1
    /\ c1 + 3 <= Len(s)
    /\ s[c1 + 1] = ")"
    /\ s[c1 + 2] = " "
    /\ s[c1 + 3] = ":"

regex_groups(s, p, a1, a2, jB) ==
    IF alt_line(s, p, a1) /\ alt_column(s, a1, a2)
    THEN [kind |-> "line_column", end |-> a2 + 1,
          g1 |-> SubSeq(s, p + 1, a1), g3 |-> SubSeq(s, a1 + 2, a2),
          g5 |-> NoGroup, g6 |-> NoGroup, g8 |-> NoGroup]
    ELSE IF alt_line(s, p, a1)
    THEN [kind |-> "line", end |-> a1 + 1,
          g1 |-> SubSeq(s, p + 1, a1), g3 |-> NoGroup,
          g5 |-> NoGroup, g6 |-> NoGroup, g8 |-> NoGroup]
    ELSE IF jB # 0
    THEN [kind |-> "quoted", end |-> digits_end(s, jB + 2),
          g1 |-> NoGroup, g3 |-> NoGroup,
          g5 |-> SubSeq(s, p + 1, jB - 1),
          g6 |-> SubSeq(s, jB + 2, digits_end(s, jB + 2)), g8 |-> NoGroup]
    ELSE IF alt_paren(s, p, a1)
    THEN [kind |-> "paren", end |-> a1 + 3,
          g1 |-> NoGroup, g3 |-> NoGroup, g5 |-> NoGroup, g6 |-> NoGroup,
          g8 |-> SubSeq(s, p + 1, a1)]
    ELSE [kind |-> "none", end |-> p,
          g1 |-> NoGroup, g3 |-> NoGroup, g5 |-> NoGroup, g6 |-> NoGroup,
          g8 |-> NoGroup]

regex_match_from_digits(s, p, a1) ==
    regex_groups(s, p, a1, digits_end(s, a1 + 2), alt_quoted(s, p))

regex_match_at(s, p) == regex_match_from_digits(s, p, digits_end(s, p + 1))

\* re.search: position of the leftmost match at or after position from, 0 when none
regex_search_from(s, from) ==
    LET hits == {p \in from..Len(s) : regex_match_at(s, p).kind # "none"}
    IN  IF hits = {} THEN 0 ELSE CHOOSE p \in hits : \A q \in hits : p <= q

\* the replacement template chosen by the groups of the FIRST match,
\* expanded with the groups of the match m being replaced
expand_template(kind, m) ==
    CASE kind = "line_column" -> <<"(">> \o m.g1 \o <<",">> \o m.g3 \o <<")", ":">>
      [] kind = "line"        -> <<"(">> \o m.g1 \o <<")", ":">>
      [] kind = "quoted"      -> m.g5 \o <<"(">> \o m.g6 \o <<")", ":">>
      [] kind = "paren"       -> <<"(">> \o m.g8 \o <<")", ":">>

\* the match m found at p replaced, then the rest of the line after it
replace_match(s, from, p, m, kind, rest) ==
    SubSeq(s, from, p - 1) \o expand_template(kind, m) \o rest[m.end + 1]

replace_from(s, from, p, kind, rest) ==
    IF p = 0 THEN SubSeq(s, from, Len(s))
    ELSE replace_match(s, from, p, regex_match_at(s, p), kind, rest)

\* re.sub(regex, template, line): every non-overlapping match, left to right;
\* rest[from] is the result for the part of s that starts at position from
regex_sub(s, kind) ==
    LET rest[from \in 1..(Len(s) + 1)] ==
            replace_from(s, from, regex_search_from(s, from), kind, rest)
    IN  rest[1]

first_match_kind(s, p) == regex_match_at(s, p).kind

match_from(line, p) ==
    IF p = 0 THEN <<>> ELSE regex_sub(line, first_match_kind(line, p))

match_line_and_column(line) == match_from(line, regex_search_from(line, 1))

(***************************************************************************)
(* VSJumpToLine.__match_special                                            *)
(*   regex = ^\[   LINE   \] --- (.+)                                      *)
(***************************************************************************)
SpecialPrefix == <<"[", " ", " ", " ", "L", "I", "N", "E", " ", " ", " ", "]",
                   " ", "-", "-", "-", " ">>

match_special(line) ==
    IF /\ Len(line) > Len(SpecialPrefix)
       /\ SubSeq(line, 1, Len(SpecialPrefix)) = SpecialPrefix
    THEN SubSeq(line, Len(SpecialPrefix) + 1, Len(line))
    ELSE <<>>

(***************************************************************************)
(* re.search(r": In function.+:", file_line, re.IGNORECASE)                *)
(***************************************************************************)
InFunction == <<":", " ", "i", "n", " ", "f", "u", "n", "c", "t", "i", "o", "n">>

search_in_function(line) ==
    \E i \in 1..Len(line) :
        /\ i + Len(InFunction) - 1 <= Len(line)
        /\ SubSeq(lower(line), i, i + Len(InFunction) - 1) = InFunction
        /\ \E j \in (i + Len(InFunction) + 1)..Len(line) : line[j] = ":"

(***************************************************************************)
(* VSJumpToLine.__convert_to_absolute_path                                 *)
(*   regex = ((^.+)\.(.+))(\(.+\)):                                        *)
(* The files below the working directory, in the order glob.iglob yields   *)
(* them: dir is the directory relative to the working directory.  File     *)
(* names are taken literally (no name of the model holds a glob wildcard). *)
(***************************************************************************)
WorkingDirFiles == << [dir |-> <<"s">>, name |-> <<"a", ".", "c">>] >>

\* glob.iglob(option_working_dir + "/**/" + name, recursive=True)
iglob(working_dir, name) ==
    LET found == SelectSeq(WorkingDirFiles, LAMBDA f : f.name = name)
    IN  [i \in 1..Len(found) |->
            working_dir \o <<"/">>
            \o (IF found[i].dir = <<>> THEN <<>> ELSE found[i].dir \o <<"/">>)
            \o found[i].name]

\* The match of the regex, which can only start at the first character:
\* <<i, j, k>> with "." at i, "(" at j, ")" at k and ":" at k + 1; every
\* group is greedy, so the greatest i, then the greatest j, then the
\* greatest k are taken.  <<0, 0, 0>> when there is no match.
path_regex_match(s) ==
    LET ok(i, j, k) == /\ s[i] = "." /\ s[j] = "(" /\ s[k] = ")"
                       /\ k + 1 <= Len(s) /\ s[k + 1] = ":"
        all == {t \in (2..Len(s)) \X (4..Len(s)) \X (6..Len(s)) :
                    /\ t[2] >= t[1] + 2
                    /\ t[3] >= t[2] + 2
                    /\ ok(t[1], t[2], t[3])}
        before(a, b) == \/ a[1] < b[1]
                        \/ a[1] = b[1] /\ a[2] < b[2]
                        \/ a[1] = b[1] /\ a[2] = b[2] /\ a[3] <= b[3]
    IN  IF all = {} THEN <<0, 0, 0>>
        ELSE CHOOSE t \in all : \A u \in all : before(u, t)

\* the substitution once the file is found: the path, group 4, ":" and the
\* line with the match removed
absolute_line(line, m, paths) ==
    IF Len(paths) = 0 THEN <<>>
    ELSE paths[1] \o SubSeq(line, m[2], m[3]) \o <<":">>
         \o SubSeq(line, m[3] + 2, Len(line))

resolve_match(line, working_dir, m, group1) ==
    IF m[1] = 0 THEN <<>>
    ELSE IF find(group1, <<"/">>) > -1 \/ find(group1, <<"\\">>) > -1 THEN <<>>
    ELSE absolute_line(line, m, iglob(working_dir, group1))

resolve_line(line, working_dir, m) ==
    resolve_match(line, working_dir, m, SubSeq(line, 1, m[2] - 1))

convert_to_absolute_path(line, working_dir) ==
    IF working_dir = <<>> THEN <<>>
    ELSE resolve_line(line, working_dir, path_regex_match(line))

(***************************************************************************)
(* The input: the lines the input file can hold, as the file iterator      *)
(* yields them (each ends with its line feed).                             *)
(***************************************************************************)
InputLines == <<
    \* a.c:5:2: error: bad
    <<"a", ".", "c", ":", "5", ":", "2", ":", " ", "e", "r", "r", "o", "r", ":", " ", "b", "a", "d", "\n">>,
    \* a.c(5,2): error: bad
    <<"a", ".", "c", "(", "5", ",", "2", ")", ":", " ", "e", "r", "r", "o", "r", ":", " ", "b", "a", "d", "\n">>,
    \* a.c: In function 'f':
    <<"a", ".", "c", ":", " ", "I", "n", " ", "f", "u", "n", "c", "t", "i", "o", "n", " ", "'", "f", "'", ":", "\n">>,
    \* a.c:3: In function 'f': warning: w
    <<"a", ".", "c", ":", "3", ":", " ", "I", "n", " ", "f", "u", "n", "c", "t", "i", "o", "n", " ", "'", "f", "'", ":", " ", "w", "a", "r", "n", "i", "n", "g", ":", " ", "w", "\n">>,
    \* "  int x;"  (indented with spaces)
    <<" ", " ", "i", "n", "t", " ", "x", ";", "\n">>,
    \* "\tint y;"  (indented with a tab)
    <<"\t", "i", "n", "t", " ", "y", ";", "\n">>,
    \* "  "  (only spaces)
    <<" ", " ", "\n">>,
    \* ""  (empty line)
    <<"\n">>,
    \* a.c:5:2: error: see b.c:7: x
    <<"a", ".", "c", ":", "5", ":", "2", ":", " ", "e", "r", "r", "o", "r", ":", " ", "s", "e", "e", " ", "b", ".", "c", ":", "7", ":", " ", "x", "\n">>,
    \* [   LINE   ] --- t.c:9: note: n
    <<"[", " ", " ", " ", "L", "I", "N", "E", " ", " ", " ", "]", " ", "-", "-", "-", " ", "t", ".", "c", ":", "9", ":", " ", "n", "o", "t", "e", ":", " ", "n", "\n">>
  >>

LineIds == 1..Len(InputLines)

\* the greatest number of lines of an input file
MaxLines == 4

\* the values of option_working_dir: "" (no --dir) and "w"
WorkingDirs == {<<>>, <<"w">>}

(***************************************************************************)
(* VSJumpToLine.__process_input_file, the pure part of one loop pass,      *)
(* tabulated per input line so that it is computed once.                   *)
(***************************************************************************)
\* file_line.replace('\n', '').replace('\r', '')
strip_newlines(raw) == remove_char(remove_char(raw, "\n"), "\r")

\* line_before after the banner test
match_line_before(file_line) ==
    IF search_in_function(file_line) THEN file_line ELSE <<>>

\* the text handed to __append_result_list and the branch that hands it over
choose_branch(file_line, line_processed_line_column, line_processed_special) ==
    IF line_processed_line_column # <<>>
    THEN IF line_processed_special # <<>>
         THEN [branch |-> "special", text |-> line_processed_special]
         ELSE [branch |-> "line_column", text |-> line_processed_line_column]
    ELSE [branch |-> "no_match", text |-> file_line]

rewrite_special(file_line, line_processed_line_column) ==
    choose_branch(file_line, line_processed_line_column,
                  match_special(line_processed_line_column))

rewrite_line(file_line) ==
    rewrite_special(file_line, match_line_and_column(file_line))

\* line_processed after the first three statements of __append_result_list
or_same(abs_path_line, line_processed) ==
    IF abs_path_line # <<>> THEN abs_path_line ELSE line_processed

absolute_or_same(line_processed, working_dir) ==
    or_same(convert_to_absolute_path(line_processed, working_dir), line_processed)

FileLineTab == [n \in LineIds |-> strip_newlines(InputLines[n])]
SeverityTab == [n \in LineIds |-> match_severity(FileLineTab[n])]
LineBeforeTab == [n \in LineIds |-> match_line_before(FileLineTab[n])]
RewriteTab == [n \in LineIds |-> rewrite_line(FileLineTab[n])]
LineProcessedTab ==
    [n \in LineIds |->
        [d \in WorkingDirs |-> absolute_or_same(RewriteTab[n].text, d)]]

(***************************************************************************)
(* The state of a run: the fields of the VSJumpToLine object, the locals   *)
(* of __process_input_file that live across loop passes, and the process.  *)
(***************************************************************************)
VARIABLES
    option_multi_line,          \* 0 (off), 1 (before), 2 (behind), 3 (both)
    option_suppress_identical,  \* 0 or 1
    option_working_dir,         \* "" when --dir is not given
    result_list,                \* sequence of <<tag, text>>
    cnt_infos, cnt_notes, cnt_warnings, cnt_errors,
    cnt_suppressed_infos, cnt_suppressed_notes,
    cnt_suppressed_warnings, cnt_suppressed_errors,
    cnt_lines,
    severity,                   \* local of __process_input_file
    line_before,                \* local of __process_input_file (None is "")
    pc,                         \* "reading", "done", "printed", "failed"
    exit_code,                  \* <<>> while running, <<status>> after sys.exit
    stdout,                     \* what print_output printed
    lines,                      \* history: the ids of the lines read so far
    origin                      \* history: origin[i] is the number of the line
                                \* of the input that result_list[i] was added for

options == <<option_multi_line, option_suppress_identical, option_working_dir>>
counters == <<cnt_infos, cnt_notes, cnt_warnings, cnt_errors,
              cnt_suppressed_infos, cnt_suppressed_notes,
              cnt_suppressed_warnings, cnt_suppressed_errors>>
vars == <<options, result_list, counters, cnt_lines, severity, line_before,
          pc, exit_code, stdout, lines, origin>>

NoOutput == [notes |-> <<>>, warnings |-> <<>>, errors |-> <<>>, totals |-> <<>>]

(***************************************************************************)
(* VSJumpToLine.__init__ and __process_cmdline: the counters are zero, the *)
(* result list is empty, the options are whatever the command line gave.   *)
(***************************************************************************)
Init ==
    /\ option_multi_line \in 0..3
    /\ option_suppress_identical \in {0, 1}
    /\ option_working_dir \in WorkingDirs
    /\ result_list = <<>>
    /\ cnt_infos = 0 /\ cnt_notes = 0 /\ cnt_warnings = 0 /\ cnt_errors = 0
    /\ cnt_suppressed_infos = 0 /\ cnt_suppressed_notes = 0
    /\ cnt_suppressed_warnings = 0 /\ cnt_suppressed_errors = 0
    /\ cnt_lines = 0
    /\ severity = ignore
    /\ line_before = <<>>
    /\ pc = "reading"
    /\ exit_code = <<>>
    /\ stdout = NoOutput
    /\ lines = <<>>
    /\ origin = <<>>

(***************************************************************************)
(* __process_input_file, the look-behind test of one loop pass             *)
(***************************************************************************)
is_line_behind_any_indent(multi_line, severity_last, sev, file_line) ==
    /\ multi_line # 0
    /\ severity_last > ignore
    /\ sev = ignore
    /\ file_line # <<>>
    /\ file_line[1] \in WhiteSpace
    /\ ~isspace(file_line)

is_line_behind_any_mode(multi_line, severity_last, sev, file_line) ==
    /\ severity_last > ignore
    /\ sev = ignore
    /\ file_line # <<>>
    /\ file_line[1] = " "
    /\ ~isspace(file_line)

is_line_behind(multi_line, severity_last, sev, file_line) ==
    /\ multi_line # 0
    /\ severity_last > ignore
    /\ sev = ignore
    /\ file_line # <<>>
    /\ file_line[1] = " "
    /\ ~isspace(file_line)

(***************************************************************************)
(* VSJumpToLine.__append_result_list                                       *)
(***************************************************************************)
\* the scan of the result list for an entry with the same text
already_in_list_always(suppress_identical, list, line_processed) ==
    \E i \in 1..Len(list) : list[i][2] = line_processed

already_in_list(suppress_identical, list, line_processed) ==
    /\ suppress_identical # 0
    /\ \E i \in 1..Len(list) : list[i][2] = line_processed

\* the result list after the appends of the "not already_in_list" branch
append_entries_any_mode(multi_line, list, sev, line_processed, before) ==
    IF before # <<>>
    THEN list \o << <<sev + offset_before, before>>, <<sev, line_processed>> >>
    ELSE Append(list, <<sev, line_processed>>)

append_entries_at_front(multi_line, list, sev, line_processed, before) ==
    IF multi_line # 0 /\ before # <<>>
    THEN << <<sev + offset_before, before>>, <<sev, line_processed>> >> \o list
    ELSE << <<sev, line_processed>> >> \o list

append_entries(multi_line, list, sev, line_processed, before) ==
    IF multi_line # 0 /\ before # <<>>
    THEN list \o << <<sev + offset_before, before>>, <<sev, line_processed>> >>
    ELSE Append(list, <<sev, line_processed>>)

\* a counter of severity which after a call made with severity sev: the
\* accepted counters count the calls that appended, the suppressed counters
\* the calls that found the text in the list
count_ignoring_hit(cnt, which, sev, hit) == IF sev = which THEN cnt + 1 ELSE cnt

count(cnt, which, sev, hit) == IF hit /\ sev = which THEN cnt + 1 ELSE cnt

\* a return value that is the severity passed in, recorded or not
append_result_list_returns_severity(sev, dup) == sev

\* __append_result_list, its return value: the severity when the line was
\* recorded, Severity.ignore when it was suppressed as a duplicate
append_result_list_return(sev, dup) == IF dup THEN ignore ELSE sev

(***************************************************************************)
(* __process_input_file: one pass of the loop over the lines of the file   *)
(***************************************************************************)
process_line(n, file_line, sev, before, branch, line_processed) ==
    LET severity_last == severity
        behind == is_line_behind(option_multi_line, severity_last, sev, file_line)
        dup == already_in_list(option_suppress_identical, result_list,
                               line_processed)
        \* __append_result_list is called, and what it returns
        call == ~behind /\ sev > ignore
        returned == append_result_list_return(sev, dup)
    IN  /\ cnt_lines' = cnt_lines + 1
        /\ lines' = Append(lines, n)
        /\ line_before' = before
        /\ result_list' =
             IF behind
             THEN Append(result_list, <<severity_last + offset_behind, file_line>>)
             ELSE IF call /\ ~dup
             THEN append_entries(option_multi_line, result_list, sev,
                                 line_processed, before)
             ELSE result_list
        /\ origin' = origin \o [i \in 1..(Len(result_list') - Len(result_list)) |->
                                    cnt_lines + 1]
        /\ severity' =
             IF behind THEN severity_last
             ELSE IF call /\ branch # "no_match" THEN returned
             ELSE sev
        /\ cnt_infos' = count(cnt_infos, info, sev, call /\ ~dup)
        /\ cnt_notes' = count(cnt_notes, note, sev, call /\ ~dup)
        /\ cnt_warnings' = count(cnt_warnings, warning, sev, call /\ ~dup)
        /\ cnt_errors' = count(cnt_errors, error, sev, call /\ ~dup)
        /\ cnt_suppressed_infos' = count(cnt_suppressed_infos, info, sev, call /\ dup)
        /\ cnt_suppressed_notes' = count(cnt_suppressed_notes, note, sev, call /\ dup)
        /\ cnt_suppressed_warnings' =
             count(cnt_suppressed_warnings, warning, sev, call /\ dup)
        /\ cnt_suppressed_errors' =
             count(cnt_suppressed_errors, error, sev, call /\ dup)

ProcessLine(n) ==
    /\ pc = "reading"
    /\ cnt_lines < MaxLines
    /\ process_line(n, FileLineTab[n], SeverityTab[n], LineBeforeTab[n],
                    RewriteTab[n].branch, LineProcessedTab[n][option_working_dir])
    /\ UNCHANGED <<options, pc, exit_code, stdout>>

\* the file iterator is exhausted: the loop and the constructor return
EndOfFile ==
    /\ pc = "reading"
    /\ pc' = "done"
    /\ UNCHANGED <<options, result_list, counters, cnt_lines, severity,
                   line_before, exit_code, stdout, lines, origin>>

\* a handler that records the failure status but lets the constructor return
DecodeError_returns ==
    /\ pc = "reading"
    /\ pc' = "done"
    /\ exit_code' = <<exit_fail_decode>>
    /\ UNCHANGED <<options, result_list, counters, cnt_lines, severity,
                   line_before, stdout, lines, origin>>

\* reading the next line raises UnicodeDecodeError: sys.exit(exit_fail_decode)
DecodeError ==
    /\ pc = "reading"
    /\ pc' = "failed"
    /\ exit_code' = <<exit_fail_decode>>
    /\ UNCHANGED <<options, result_list, counters, cnt_lines, severity,
                   line_before, stdout, lines, origin>>

(***************************************************************************)
(* VSJumpToLine.__print_lines and print_output                             *)
(* The entries printed for one severity, in the order printed (the prefix, *)
(* the blank separator lines and the banners are left out).                *)
(***************************************************************************)
print_lines(sev, list, multi_line) ==
    SelectSeq(list, LAMBDA entry :
        \/ sev = entry[1]
        \/ multi_line \in {1, 3} /\ sev + offset_before = entry[1]
        \/ multi_line \in {2, 3} /\ sev + offset_behind = entry[1])

print_output ==
    [notes    |-> IF cnt_notes # 0
                  THEN print_lines(note, result_list, option_multi_line) ELSE <<>>,
     warnings |-> IF cnt_warnings # 0
                  THEN print_lines(warning, result_list, option_multi_line) ELSE <<>>,
     errors   |-> IF cnt_errors # 0
                  THEN print_lines(error, result_list, option_multi_line) ELSE <<>>,
     totals   |-> <<cnt_errors + cnt_suppressed_errors, cnt_suppressed_errors,
                    cnt_warnings + cnt_suppressed_warnings, cnt_suppressed_warnings,
                    cnt_notes + cnt_suppressed_notes, cnt_suppressed_notes,
                    cnt_lines>>]

\* main: jtol.print_output() and sys.exit(jtol.exit_success)
PrintOutput ==
    /\ pc = "done"
    /\ stdout' = print_output
    /\ exit_code' = <<exit_success>>
    /\ pc' = "printed"
    /\ UNCHANGED <<options, result_list, counters, cnt_lines, severity,
                   line_before, lines, origin>>

Next ==
    \/ \E n \in LineIds : ProcessLine(n)
    \/ EndOfFile
    \/ DecodeError
    \/ PrintOutput

Spec == Init /\ [][Next]_vars

(***************************************************************************)
(* Vocabulary of the properties.                                           *)
(***************************************************************************)
\* the severity markers of the classifier, as the specification lists them
Markers == { <<"n", "o", "t", "e", ":">>, <<"n", "o", "t", "e", "[">>,
             <<"w", "a", "r", "n", "i", "n", "g", ":">>,
             <<"w", "a", "r", "n", "i", "n", "g", "[">>,
             <<":", "f", "a", "i", "l", ":">>,
             <<"e", "r", "r", "o", "r", ":">>, <<"e", "r", "r", "o", "r", "[">>,
             <<"u", "n", "d", "e", "f", "i", "n", "e", "d", " ",
               "r", "e", "f", "e", "r", "e", "n", "c", "e">> }

has_marker(line) == \E m \in Markers : find(lower(line), m) > -1

HasMarkerTab == [n \in LineIds |-> has_marker(FileLineTab[n])]
IsBannerTab == [n \in LineIds |-> search_in_function(FileLineTab[n])]
BlankTab == [n \in LineIds |-> FileLineTab[n] = <<>> \/ isspace(FileLineTab[n])]

StartsWithWhitespace(n) == FileLineTab[n] # <<>> /\ FileLineTab[n][1] \in WhiteSpace
StartsWithSpace(n) == FileLineTab[n] # <<>> /\ FileLineTab[n][1] = " "

BaseSeverities == {note, warning, error}
BeforeMode == option_multi_line \in {1, 3}
BehindMode == option_multi_line \in {2, 3}

LineNumbers == 1..Len(lines)
EntryNumbers == 1..Len(result_list)
EntriesOf(i) == {e \in EntryNumbers : origin[e] = i}
IsPrimary(e) == result_list[e][1] \in BaseSeverities
IsOffsetBefore(e) == \E s \in BaseSeverities : result_list[e][1] = s + offset_before
IsOffsetBehind(e) == \E s \in BaseSeverities : result_list[e][1] = s + offset_behind
\* line i of the input is a diagnostic whose primary entry is in the list
Recorded(i) == SeverityTab[lines[i]] > ignore /\ \E e \in EntriesOf(i) : IsPrimary(e)

accepted == (note :> cnt_notes) @@ (warning :> cnt_warnings) @@ (error :> cnt_errors)
suppressed == (note :> cnt_suppressed_notes) @@ (warning :> cnt_suppressed_warnings)
              @@ (error :> cnt_suppressed_errors)

\* a step that processes one more line of the input, the line read being
\* the last of lines'
ReadStep == pc = "reading" /\ Len(lines') = Len(lines) + 1
NewEntries == SubSeq(result_list', Len(result_list) + 1, Len(result_list'))

(***************************************************************************)
(* C1: under before-mode, when a banner line without severity marker is    *)
(* immediately followed by a diagnostic line that is recorded, processing  *)
(* the diagnostic line appends exactly the OffsetBefore entry of its       *)
(* severity with the banner text and then its primary entry.               *)
(***************************************************************************)
BannerThenDiagnostic(b, n) ==
    /\ IsBannerTab[b]
    /\ ~HasMarkerTab[b]
    /\ SeverityTab[n] > ignore

C1_BannerGivesOffsetBefore ==
    [][ (/\ ReadStep
         /\ BeforeMode
         /\ Len(lines) >= 1
         /\ BannerThenDiagnostic(lines[Len(lines)], lines'[Len(lines')])
         /\ Len(result_list') > Len(result_list))
        => NewEntries =
             << <<SeverityTab[lines'[Len(lines')]] + offset_before,
                  FileLineTab[lines[Len(lines)]]>>,
                <<SeverityTab[lines'[Len(lines')]],
                  LineProcessedTab[lines'[Len(lines')]][option_working_dir]>> >> ]_vars

(***************************************************************************)
(* C2: under behind-mode, a recorded diagnostic of severity s followed by  *)
(* k >= 1 continuation lines (no marker, indented, not blank) has exactly  *)
(* one OffsetBehind entry of s per continuation line, in input order,      *)
(* right behind its primary entry; and from the first marker-free line     *)
(* that is blank or not indented on, no marker-free line is recorded       *)
(* until the next diagnostic line.  Indented(n) says what "indented" is.   *)
(***************************************************************************)
Continues(n, Indented(_)) == ~HasMarkerTab[n] /\ Indented(n) /\ ~BlankTab[n]
Terminates(n, Indented(_)) == ~HasMarkerTab[n] /\ (BlankTab[n] \/ ~Indented(n))

BehindRuns(Indented(_)) ==
    BehindMode =>
      /\ \A i \in LineNumbers, j \in LineNumbers :
            (/\ i < j
             /\ Recorded(i)
             /\ \A m \in (i + 1)..j : Continues(lines[m], Indented))
            => \E e \in EntriesOf(i) :
                  /\ IsPrimary(e)
                  /\ e + (j - i) <= Len(result_list)
                  /\ EntriesOf(j) = {e + (j - i)}
                  /\ result_list[e + (j - i)] =
                        <<SeverityTab[lines[i]] + offset_behind, FileLineTab[lines[j]]>>
      /\ \A t \in LineNumbers, j \in LineNumbers :
            (/\ t <= j
             /\ Terminates(lines[t], Indented)
             /\ \A m \in t..j : ~HasMarkerTab[lines[m]])
            => EntriesOf(j) = {}

\* C2 as claimed: "indented" is "starts with whitespace"
C2_BehindRunsWhitespace == BehindRuns(StartsWithWhitespace)

\* C2 amended: "indented" is "starts with a space character"
C2_BehindRunsSpace == BehindRuns(StartsWithSpace)

\* a recorded diagnostic, a continuation line, a line that ends the run,
\* and an indented line after it
C2_Witness ==
    /\ BehindMode
    /\ Len(lines) = 4
    /\ Recorded(1)
    /\ Continues(lines[2], StartsWithSpace)
    /\ Terminates(lines[3], StartsWithSpace)
    /\ Continues(lines[4], StartsWithSpace)
    /\ Len(result_list) = 2

(***************************************************************************)
(* C3: with suppress-identical on, a diagnostic line of severity s whose   *)
(* final text equals the text of an earlier recorded diagnostic increments *)
(* only the suppressed counter of s and appends nothing; with              *)
(* suppress-identical off, every diagnostic line appends its primary entry *)
(* and increments the accepted counter of s, and no suppressed counter     *)
(* ever changes.                                                           *)
(***************************************************************************)
KnownText(text) == \E e \in EntryNumbers : IsPrimary(e) /\ result_list[e][2] = text

DedupStep(n, s, text) ==
    /\ (option_suppress_identical # 0 /\ KnownText(text)) =>
          /\ result_list' = result_list
          /\ suppressed' = [suppressed EXCEPT ![s] = @ + 1]
          /\ accepted' = accepted
    /\ option_suppress_identical = 0 =>
          /\ Len(result_list') > Len(result_list)
          /\ result_list'[Len(result_list')] = <<s, text>>
          /\ accepted' = [accepted EXCEPT ![s] = @ + 1]
          /\ suppressed' = suppressed

C3_Dedup ==
    /\ [][ (ReadStep /\ SeverityTab[lines'[Len(lines')]] > ignore)
           => DedupStep(lines'[Len(lines')], SeverityTab[lines'[Len(lines')]],
                        LineProcessedTab[lines'[Len(lines')]][option_working_dir]) ]_vars
    /\ [][ option_suppress_identical = 0 => suppressed' = suppressed ]_vars

\* the same diagnostic read twice with suppress-identical on
C3_Witness ==
    /\ option_suppress_identical = 1
    /\ Len(lines) = 2
    /\ SeverityTab[lines[2]] = error
    /\ cnt_suppressed_errors = 1
    /\ cnt_errors = 1
    /\ Len(result_list) = 1

(***************************************************************************)
(* C4: a line without severity marker is classified Ignore and no entry    *)
(* of the result list comes from it.                                       *)
(***************************************************************************)
C4_NoEntryFromUnmarkedLine ==
    /\ \A i \in LineNumbers : ~HasMarkerTab[lines[i]] => SeverityTab[lines[i]] = ignore
    /\ \A e \in EntryNumbers : HasMarkerTab[lines[origin[e]]]

\* C4 amended: a line without severity marker is classified Ignore and is
\* never recorded as a primary entry; an entry that comes from it is a
\* context entry holding the line as read, and there is none when the
\* multi-line mode is off.
C4_OnlyContextFromUnmarkedLine ==
    /\ \A i \in LineNumbers : ~HasMarkerTab[lines[i]] => SeverityTab[lines[i]] = ignore
    /\ \A e \in EntryNumbers :
          ~HasMarkerTab[lines[origin[e]]] =>
             /\ option_multi_line # 0
             /\ IsOffsetBefore(e) \/ IsOffsetBehind(e)
             /\ result_list[e][2] = FileLineTab[lines[origin[e]]]

\* an unmarked line recorded as a context entry and an unmarked line dropped
C4_Witness ==
    /\ \E e \in EntryNumbers : ~HasMarkerTab[lines[origin[e]]]
    /\ \E i \in LineNumbers : ~HasMarkerTab[lines[i]] /\ EntriesOf(i) = {}

(***************************************************************************)
(* C5: with no optional feature enabled the result list is, in input       *)
(* order, one entry per input line of severity above Ignore, tagged with   *)
(* that severity and holding the canonical text of the line; the accepted  *)
(* counters count these lines per severity and the suppressed counters     *)
(* are 0.  The canonical text is the one the specification defines: the    *)
(* first location match rewritten, the rest of the line untouched, then    *)
(* the test-runner prefix stripped; the line itself when nothing matches.  *)
(***************************************************************************)
\* re.sub with count = 1 would replace the first match only: the rest of the
\* line is copied
regex_sub_first(s, kind) ==
    LET rest == [from \in 1..(Len(s) + 1) |-> SubSeq(s, from, Len(s))]
    IN  replace_from(s, 1, regex_search_from(s, 1), kind, rest)

rewrite_first_only(line) ==
    IF regex_search_from(line, 1) = 0 THEN <<>>
    ELSE regex_sub_first(line, first_match_kind(line, regex_search_from(line, 1)))

canonical_text(file_line) ==
    IF rewrite_first_only(file_line) = <<>> THEN file_line
    ELSE IF match_special(rewrite_first_only(file_line)) # <<>>
    THEN match_special(rewrite_first_only(file_line))
    ELSE rewrite_first_only(file_line)

RewriteFirstTab == [n \in LineIds |-> rewrite_first_only(FileLineTab[n])]
CanonicalTab == [n \in LineIds |-> canonical_text(FileLineTab[n])]
MatchTab == [n \in LineIds |-> match_line_and_column(FileLineTab[n])]

NoOptions ==
    /\ option_multi_line = 0
    /\ option_suppress_identical = 0
    /\ option_working_dir = <<>>

Diagnostics == SelectSeq(lines, LAMBDA n : SeverityTab[n] > ignore)

C5_OneEntryPerDiagnostic ==
    NoOptions =>
      /\ result_list = [k \in 1..Len(Diagnostics) |->
                          <<SeverityTab[Diagnostics[k]], CanonicalTab[Diagnostics[k]]>>]
      /\ \A s \in BaseSeverities :
            /\ accepted[s] = Cardinality({k \in 1..Len(Diagnostics) :
                                             SeverityTab[Diagnostics[k]] = s})
            /\ suppressed[s] = 0
      /\ cnt_infos = 0 /\ cnt_suppressed_infos = 0

(***************************************************************************)
(* C6: when the multi-line mode does not include "before" (0 or 2), the    *)
(* result list never holds an entry tagged OffsetBefore.                   *)
(***************************************************************************)
C6_NoOffsetBeforeWithoutBeforeMode ==
    option_multi_line \in {0, 2} => \A e \in EntryNumbers : ~IsOffsetBefore(e)

Printed == stdout.notes \o stdout.warnings \o stdout.errors

\* C6 amended: when the multi-line mode is off, the result list never holds
\* an entry tagged OffsetBefore; under behind-only mode such entries are
\* appended, and none of them is printed.
C6_NoOffsetBeforeWhenOff ==
    /\ option_multi_line = 0 => \A e \in EntryNumbers : ~IsOffsetBefore(e)
    /\ (option_multi_line = 2 /\ pc = "printed") =>
          \A k \in 1..Len(Printed), s \in BaseSeverities :
              Printed[k][1] # s + offset_before

\* mode off: a diagnostic line that matches the banner pattern was recorded
C6_Witness ==
    /\ option_multi_line = 0
    /\ \E i \in LineNumbers : IsBannerTab[lines[i]] /\ Recorded(i)

(***************************************************************************)
(* C7: when the multi-line mode does not include "behind" (0 or 1), the    *)
(* result list never holds an entry tagged OffsetBehind, no line being     *)
(* taken as a continuation.                                                *)
(***************************************************************************)
C7_NoOffsetBehindWithoutBehindMode ==
    option_multi_line \in {0, 1} => \A e \in EntryNumbers : ~IsOffsetBehind(e)

\* C7 amended: when the multi-line mode is off, the result list never holds
\* an entry tagged OffsetBehind and no line is taken as a continuation (the
\* severity carried to the next line after an unmarked line is Ignore);
\* under before-only mode such entries are appended, and none is printed.
C7_NoOffsetBehindWhenOff ==
    /\ option_multi_line = 0 =>
          /\ \A e \in EntryNumbers : ~IsOffsetBehind(e)
          /\ (Len(lines) >= 1 /\ ~HasMarkerTab[lines[Len(lines)]]) => severity = ignore
    /\ (option_multi_line = 1 /\ pc = "printed") =>
          \A k \in 1..Len(Printed), s \in BaseSeverities :
              Printed[k][1] # s + offset_behind

\* mode off: a recorded diagnostic followed by an indented, non-blank line
C7_Witness ==
    /\ option_multi_line = 0
    /\ Len(lines) = 2
    /\ Recorded(1)
    /\ Continues(lines[2], StartsWithSpace)

(***************************************************************************)
(* C8: the result list is append-only: in every step the list before the   *)
(* step is a prefix of the list after it.                                  *)
(***************************************************************************)
IsPrefix(a, b) == Len(a) <= Len(b) /\ SubSeq(b, 1, Len(a)) = a

C8_AppendOnly == [][IsPrefix(result_list, result_list')]_vars

\* entries were appended, then a duplicate was suppressed and a line ignored
C8_Witness ==
    /\ Len(result_list) >= 2
    /\ cnt_suppressed_errors >= 1
    /\ Len(lines) >= 1
    /\ ~HasMarkerTab[lines[Len(lines)]]
    /\ EntriesOf(Len(lines)) = {}

(***************************************************************************)
(* C9: for each base severity s the accepted counter of s is the number    *)
(* of entries tagged exactly s; a step changes the accepted counter of s   *)
(* by the number of primary entries of s it appends, so that the context   *)
(* entries count for nothing, and a step that appends leaves the           *)
(* suppressed counters as they are.                                        *)
(***************************************************************************)
Tagged(list, s) == Cardinality({k \in 1..Len(list) : list[k][1] = s})

C9_OnlyPrimariesCounted ==
    /\ [](\A s \in BaseSeverities : accepted[s] = Tagged(result_list, s))
    /\ [][ \A s \in BaseSeverities :
              /\ accepted'[s] = accepted[s] + Tagged(NewEntries, s)
              /\ NewEntries # <<>> => suppressed'[s] = suppressed[s] ]_vars

\* an OffsetBefore entry, its primary entry and an OffsetBehind entry
C9_Witness ==
    /\ Len(result_list) = 3
    /\ IsOffsetBefore(1)
    /\ IsPrimary(2)
    /\ IsOffsetBehind(3)
    /\ cnt_warnings = 1

(***************************************************************************)
(* C10: the rewriter rewrites only the first location match of a line and  *)
(* leaves the rest of the line untouched; a line without match gives the   *)
(* empty string.  Stated of every diagnostic line read, the lines the      *)
(* rewriter is called with.                                                *)
(***************************************************************************)
C10_RewritesFirstMatchOnly ==
    \A i \in LineNumbers :
        SeverityTab[lines[i]] > ignore =>
            MatchTab[lines[i]] = RewriteFirstTab[lines[i]]

(***************************************************************************)
(* C11: a decode failure is fatal and leaves no partial report.  The step  *)
(* that raises the decode error processes nothing (entries, counters and   *)
(* the line count stay as the earlier lines left them); once the run has   *)
(* failed its exit status is the decode-failure status and nothing has     *)
(* been printed; and after the failure status is set no further step       *)
(* happens, so print_output is never reached and no later line is read.    *)
(***************************************************************************)
Failed == exit_code = <<exit_fail_decode>>

C11_DecodeFailureIsFatal ==
    /\ [](pc = "failed" => Failed /\ stdout = NoOutput)
    /\ [](Failed => pc = "failed" /\ stdout = NoOutput)
    /\ [][Failed' /\ ~Failed =>
            UNCHANGED <<result_list, counters, cnt_lines, lines, stdout>>]_vars
    /\ [][~Failed]_vars

\* the run failed after an error and a warning had been accumulated
C11_Witness ==
    /\ pc = "failed" /\ Failed
    /\ cnt_errors > 0 /\ cnt_warnings > 0 /\ Len(result_list) >= 2
    /\ stdout = NoOutput

(***************************************************************************)
(* C12: the severity carried to the next line (severity_last of the next   *)
(* loop pass).  A continuation step is a step that appends the line read   *)
(* as an OffsetBehind entry of the carried severity.                       *)
(***************************************************************************)
LastRead == lines'[Len(lines')]
ContinuationStep ==
    /\ ReadStep
    /\ SeverityTab[LastRead] = ignore
    /\ NewEntries = << <<severity + offset_behind, FileLineTab[LastRead]>> >>
\* line i is a diagnostic that left no entry: it was suppressed as a duplicate
Suppressed(i) == SeverityTab[lines[i]] > ignore /\ EntriesOf(i) = {}
SuppressedStep == ReadStep /\ suppressed' # suppressed
\* line i + 1 is an indented, non-blank, marker-free line
ContinuationFollows(i) ==
    /\ i + 1 \in LineNumbers
    /\ Continues(lines[i + 1], StartsWithSpace)

\* C12 as claimed: after every line that is not a continuation, the carried
\* severity is the line's classified severity, recorded or suppressed and on
\* every rewrite path; hence under behind-mode a continuation line directly
\* after a suppressed duplicate diagnostic is recorded as OffsetBehind.
C12_CarriesClassifiedSeverity ==
    /\ [][(ReadStep /\ ~ContinuationStep)
            => severity' = SeverityTab[LastRead]]_vars
    /\ [](BehindMode =>
            \A i \in LineNumbers :
               (Suppressed(i) /\ ContinuationFollows(i))
               => \E e \in EntriesOf(i + 1) :
                     result_list[e] = <<SeverityTab[lines[i]] + offset_behind,
                                        FileLineTab[lines[i + 1]]>>)

\* C12 amended: after a line that is not a continuation and was not
\* suppressed, the carried severity is the line's classified severity on
\* every rewrite path; after a duplicate suppressed on the location-matched
\* or the special-format path it is Ignore, and the marker-free line
\* directly after such a duplicate leaves no entry, in every mode.
C12_CarriesReturnedSeverity ==
    /\ [][(ReadStep /\ ~ContinuationStep /\ ~SuppressedStep)
            => severity' = SeverityTab[LastRead]]_vars
    /\ [][(SuppressedStep /\ RewriteTab[LastRead].branch # "no_match")
            => severity' = ignore]_vars
    /\ [](\A i \in LineNumbers :
            (/\ Suppressed(i)
             /\ RewriteTab[lines[i]].branch # "no_match"
             /\ i + 1 \in LineNumbers
             /\ ~HasMarkerTab[lines[i + 1]])
            => EntriesOf(i + 1) = {})

\* behind-mode: a duplicate suppressed on the location-matched path, then an
\* indented line that leaves no entry, and the carried severity is Ignore
C12_Witness ==
    /\ BehindMode
    /\ \E i \in LineNumbers :
          /\ Suppressed(i)
          /\ RewriteTab[lines[i]].branch = "line_column"
          /\ ContinuationFollows(i)
          /\ EntriesOf(i + 1) = {}
          /\ i + 1 = Len(lines)
    /\ severity = ignore

(***************************************************************************)
(* C13: in every reachable state, each entry tagged OffsetBehind of a base *)
(* severity s is immediately preceded in the result list by a primary      *)
(* entry tagged s or by another OffsetBehind entry of s.                   *)
(***************************************************************************)
Attached(e) ==
    /\ e > 1
    /\ \/ result_list[e - 1][1] = result_list[e][1]
       \/ result_list[e - 1][1] + offset_behind = result_list[e][1]

C13_OffsetBehindAttached ==
    \A e \in EntryNumbers : IsOffsetBehind(e) => Attached(e)

\* a duplicate that took the no-match path was suppressed
SuppressedNoMatch ==
    \E i \in LineNumbers :
        Suppressed(i) /\ RewriteTab[lines[i]].branch = "no_match"

\* the same holds in every state whose input had no such duplicate
C13_AttachedWithoutSuppressedNoMatch ==
    ~SuppressedNoMatch => C13_OffsetBehindAttached
====
